---- MODULE Spec2Model ----
(***************************************************************************)
(* A model of the CLI todo application (src/todo.py): TodoStorage,         *)
(* TodoValidator and TodoManager over one backing JSON file.               *)
(*                                                                         *)
(* Strings are sequences of one-character strings.  The backing file is a  *)
(* sequence of tokens (the serialized document), so that a truncated, an   *)
(* overwritten or a foreign document is something load_todos has to parse. *)
(***************************************************************************)
EXTENDS Integers, Sequences, FiniteSets, TLC

VARIABLES
    file,      \* the backing file: [exists, readable, data]
    ioFaults,  \* whether the disk can fail during this run (environment)
    last,      \* the manager call that ran last and how it ended
    proc,      \* the concurrent processes of SpecConc
    probe      \* the call of a pure function under SpecLoad / SpecResolve

vars == <<file, ioFaults, last, proc, probe>>

---------------------------------------------------------------------------
(* Bounds *)

MaxTasks == 3      \* longest stored list
MaxRawLen == 2     \* longest raw index string of SpecResolve
MaxDocLen == 3     \* longest foreign document of SpecLoad
MaxInitLen == 2    \* longest list two concurrent processes start from

Whitespace == {" "}
Digits == {"0", "1", "2", "3", "4"}
RawChars == Digits \cup {"-", "+", " ", "x"}

\* what datetime.now().strftime('%Y-%m-%d %H:%M') gives when a todo is created
Timestamps == {"2024-01-01 12:00", "2024-01-01 12:01"}

\* task texts a user passes to `add`
TextInputs ==
    { <<>>, <<" ">>, <<"a">>, <<"a", " ", "b">>, <<" ", "a", " ">> }

\* raw index strings a user passes to `complete` and `remove`
IndexInputs ==
    { <<"1">>, <<"2">>, <<"3">>, <<"4">>, <<"0">>, <<"x">>, <<" ", "2">> }

RECURSIVE SeqsUpTo(_, _)
SeqsUpTo(S, n) ==
    IF n = 0 THEN { <<>> }
    ELSE LET shorter == SeqsUpTo(S, n - 1)
         IN  shorter \cup { Append(s, c) : s \in { t \in shorter : Len(t) = n - 1 }, c \in S }

---------------------------------------------------------------------------
(* str.strip() and int(str) *)

RECURSIVE LStrip(_)
LStrip(s) ==
    IF s # <<>> /\ Head(s) \in Whitespace THEN LStrip(Tail(s)) ELSE s

RECURSIVE RStrip(_)
RStrip(s) ==
    IF s # <<>> /\ s[Len(s)] \in Whitespace
    THEN RStrip(SubSeq(s, 1, Len(s) - 1))
    ELSE s

Strip(s) == RStrip(LStrip(s))

DigitVal(c) ==
    CASE c = "0" -> 0 [] c = "1" -> 1 [] c = "2" -> 2 [] c = "3" -> 3 [] c = "4" -> 4

RECURSIVE DigitsValue(_, _)
DigitsValue(s, acc) ==
    IF s = <<>> THEN acc
    ELSE DigitsValue(Tail(s), 10 * acc + DigitVal(Head(s)))

\* int(index_str): surrounding whitespace is dropped, one sign is allowed, the
\* rest must be one or more decimal digits; anything else is a ValueError.
ParseInt(raw) ==
    LET s == Strip(raw)
        signed == s # <<>> /\ Head(s) \in {"-", "+"}
        body == IF signed THEN Tail(s) ELSE s
        neg == signed /\ Head(s) = "-"
    IN  IF body # <<>> /\ \A i \in 1..Len(body) : body[i] \in Digits
        THEN [ok |-> TRUE,
              val |-> IF neg THEN 0 - DigitsValue(body, 0) ELSE DigitsValue(body, 0)]
        ELSE [ok |-> FALSE, val |-> 0]

---------------------------------------------------------------------------
(* TodoValidator *)

validate_task_text(task) == task # <<>> /\ Strip(task) # <<>>

\* validate_task_index accepting a zero-based index
validate_task_index_from_zero(todos, index) == 0 <= index /\ index <= Len(todos)

validate_task_index(todos, index) == 1 <= index /\ index <= Len(todos)

NoIndex == [none |-> TRUE, val |-> 0]

get_valid_task_index(todos, index_str) ==
    LET p == ParseInt(index_str)
    IN  IF ~p.ok THEN NoIndex
        ELSE IF validate_task_index(todos, p.val)
             THEN [none |-> FALSE, val |-> p.val]
             ELSE NoIndex

---------------------------------------------------------------------------
(* The backing file and TodoStorage *)

\* The tokens of a document.  json.dump writes "[", one object per todo, "]".
OpenTok == [kind |-> "["]
CloseTok == [kind |-> "]"]
Obj(v) == [kind |-> "obj", val |-> v]
JunkTok == [kind |-> "junk"]        \* text that is no JSON
BadUtf8Tok == [kind |-> "badutf8"]  \* bytes that are no UTF-8

NoFile == [exists |-> FALSE, readable |-> FALSE, data |-> <<>>]
FileOf(data) == [exists |-> TRUE, readable |-> TRUE, data |-> data]

IsTask(v) == DOMAIN v = {"task", "completed", "created"}

\* json.dump(todos, file, indent=2, ensure_ascii=False)
Serialize(todos) ==
    <<OpenTok>> \o [i \in 1..Len(todos) |-> Obj(todos[i])] \o <<CloseTok>>

\* json.load's grammar over the tokens: one object, or "[" objects "]".
IsListDoc(d) ==
    /\ Len(d) >= 2
    /\ d[1].kind = "["
    /\ d[Len(d)].kind = "]"
    /\ \A i \in 2..(Len(d) - 1) : d[i].kind = "obj"

IsObjectDoc(d) == Len(d) = 1 /\ d[1].kind = "obj"

\* What load_todos gives back: the value it returns, or the exception that
\* leaves it.  Only json.JSONDecodeError and IOError are caught.
Returned(v, isList) == [raises |-> "none", isList |-> isList, val |-> v]
Raised(e) == [raises |-> e, isList |-> FALSE, val |-> <<>>]

load_todos(f) ==
    IF ~f.exists THEN Returned(<<>>, TRUE)
    ELSE IF ~f.readable THEN Returned(<<>>, TRUE)
    ELSE IF \E i \in 1..Len(f.data) : f.data[i].kind = "badutf8"
         THEN Raised("UnicodeDecodeError")
    ELSE IF IsListDoc(f.data)
         THEN Returned([i \in 1..(Len(f.data) - 2) |-> f.data[i + 1].val], TRUE)
    ELSE IF IsObjectDoc(f.data)
         THEN Returned(<<f.data[1].val>>, FALSE)
    ELSE Returned(<<>>, TRUE)

\* open(filename, 'w'): the file is created or cut to length zero.
Truncate(f) == FileOf(<<>>)

\* One write of the buffer at offset 0 of an open file: what lies beyond the
\* buffer's end stays.
WriteAt(f, buf) ==
    FileOf(buf \o SubSeq(f.data, Len(buf) + 1, Len(f.data)))

\* save_todos: the outcomes of open, dump and close.  Without a disk fault the
\* document is written whole.  With one, open fails and the file is untouched,
\* or the write fails after k tokens of the cut file; either way IOError is
\* caught, reported, and sys.exit(1) ends the process.
save_todos(f, todos, faults) ==
    LET doc == Serialize(todos)
    IN  { [file |-> WriteAt(Truncate(f), doc), exit |-> 0] }
        \cup (IF faults
              THEN { [file |-> f, exit |-> 1] }
                   \cup { [file |-> WriteAt(Truncate(f), SubSeq(doc, 1, k)), exit |-> 1]
                          : k \in 0..Len(doc) }
              ELSE {})

---------------------------------------------------------------------------
(* TodoManager: each method as the plan it makes from the list it loaded:   *)
(* what it returns, whether it saves, and the list it saves.               *)

Plan(ret, save, todos) == [ret |-> ret, save |-> save, todos |-> todos]

\* create_todo without the strip
create_todo_unstripped(task, t) ==
    [task |-> task, completed |-> FALSE, created |-> t]

create_todo(task, t) ==
    [task |-> Strip(task), completed |-> FALSE, created |-> t]

\* add_task without the validation of the text
add_task_unvalidated(todos, task, t) ==
    Plan("true", TRUE, Append(todos, create_todo(task, t)))

add_task(todos, task, t) ==
    IF ~validate_task_text(task) THEN Plan("false", FALSE, todos)
    ELSE Plan("true", TRUE, Append(todos, create_todo(task, t)))

Pending(todos) == SelectSeq(todos, LAMBDA x : ~x.completed)
Completed(todos) == SelectSeq(todos, LAMBDA x : x.completed)

\* list_tasks saving the list in the order it displays
list_tasks_regrouping(todos) ==
    Plan("none", TRUE, Pending(todos) \o Completed(todos))

\* list_tasks prints the pending group, then the completed group, numbered
\* through (Shown); it returns None and never saves.
Shown(todos) == Pending(todos) \o Completed(todos)

list_tasks(todos) == Plan("none", FALSE, todos)

\* complete_task without the test for a todo that is completed already
complete_task_again(todos, index_str) ==
    IF todos = <<>> THEN Plan("false", FALSE, todos)
    ELSE LET index == get_valid_task_index(todos, index_str)
         IN  IF index.none THEN Plan("false", FALSE, todos)
             ELSE Plan("true", TRUE,
                       [todos EXCEPT ![index.val].completed = TRUE])

complete_task(todos, index_str) ==
    IF todos = <<>> THEN Plan("false", FALSE, todos)
    ELSE LET index == get_valid_task_index(todos, index_str)
         IN  IF index.none THEN Plan("false", FALSE, todos)
             ELSE IF todos[index.val].completed THEN Plan("false", FALSE, todos)
             ELSE Plan("true", TRUE,
                       [todos EXCEPT ![index.val].completed = TRUE])

\* remove_task popping at index instead of index - 1
remove_task_off_by_one(todos, index_str) ==
    IF todos = <<>> THEN Plan("false", FALSE, todos)
    ELSE LET index == get_valid_task_index(todos, index_str)
         IN  IF index.none THEN Plan("false", FALSE, todos)
             ELSE Plan("true", TRUE,
                       SubSeq(todos, 1, index.val)
                           \o SubSeq(todos, index.val + 2, Len(todos)))

remove_task(todos, index_str) ==
    IF todos = <<>> THEN Plan("false", FALSE, todos)
    ELSE LET index == get_valid_task_index(todos, index_str)
         IN  IF index.none THEN Plan("false", FALSE, todos)
             ELSE Plan("true", TRUE,
                       SubSeq(todos, 1, index.val - 1)
                           \o SubSeq(todos, index.val + 1, Len(todos)))

\* clear_completed with the filter inverted
clear_completed_inverted(todos) ==
    IF Len(Completed(todos)) = 0 THEN Plan("false", FALSE, todos)
    ELSE Plan("true", TRUE, Completed(todos))

clear_completed(todos) ==
    IF Len(Completed(todos)) = 0 THEN Plan("false", FALSE, todos)
    ELSE Plan("true", TRUE, Pending(todos))

---------------------------------------------------------------------------
(* Sequential use: one manager call after another (main's dispatch)         *)

\* the list the next call will load
Stored == load_todos(file).val

\* the handlers are modelled over a file load_todos reads as a list of todos
Loadable ==
    LET r == load_todos(file)
    IN  r.raises = "none" /\ r.isList /\ \A i \in 1..Len(r.val) : IsTask(r.val[i])

NoCall ==
    [op |-> "none", arg |-> <<>>, ret |-> "none", saved |-> FALSE, exit |-> 0,
     prevRet |-> "other"]

\* Run a plan: save when the plan says so, then return; a failed save exits.
\* prevRet remembers what the call before returned when it was the same call.
Run(op, arg, plan) ==
    \E o \in (IF plan.save THEN save_todos(file, plan.todos, ioFaults)
              ELSE { [file |-> file, exit |-> 0] }) :
        /\ file' = o.file
        /\ last' = [op |-> op, arg |-> arg,
                    ret |-> IF o.exit = 0 THEN plan.ret ELSE "exit",
                    saved |-> plan.save, exit |-> o.exit,
                    prevRet |-> IF last.op = op /\ last.arg = arg
                                THEN last.ret ELSE "other"]
        /\ UNCHANGED <<ioFaults, proc, probe>>

CmdAdd ==
    /\ Loadable
    /\ LET todos == Stored
       IN  \E task \in TextInputs, t \in Timestamps :
               /\ Len(todos) < MaxTasks \/ ~validate_task_text(task)
               /\ Run("add", task, add_task(todos, task, t))

CmdList ==
    /\ Loadable
    /\ Run("list", <<>>, list_tasks(Stored))

CmdComplete ==
    /\ Loadable
    /\ LET todos == Stored
       IN  \E index_str \in IndexInputs :
               Run("complete", index_str, complete_task(todos, index_str))

CmdRemove ==
    /\ Loadable
    /\ LET todos == Stored
       IN  \E index_str \in IndexInputs :
               Run("remove", index_str, remove_task(todos, index_str))

CmdClear ==
    /\ Loadable
    /\ Run("clear", <<>>, clear_completed(Stored))

Init ==
    /\ file = NoFile
    /\ ioFaults = FALSE
    /\ last = NoCall
    /\ proc = <<>>
    /\ probe = <<>>

Next ==
    \/ CmdAdd
    \/ CmdList
    \/ CmdComplete
    \/ CmdRemove
    \/ CmdClear

Spec == Init /\ [][Next]_vars

\* The same program on a disk that can fail.
InitIO ==
    /\ file = NoFile
    /\ ioFaults = TRUE
    /\ last = NoCall
    /\ proc = <<>>
    /\ probe = <<>>

SpecIO == InitIO /\ [][Next]_vars

---------------------------------------------------------------------------
(* get_valid_task_index on its own: every raw string against every length   *)

TodosOfLen(n) == [i \in 1..n |-> create_todo(<<"a">>, "2024-01-01 12:00")]

ResolveIndex ==
    /\ ~probe.done
    /\ probe' = [probe EXCEPT
                   !.done = TRUE,
                   !.out = get_valid_task_index(TodosOfLen(probe.n), probe.raw)]
    /\ UNCHANGED <<file, ioFaults, last, proc>>

InitResolve ==
    /\ file = NoFile
    /\ ioFaults = FALSE
    /\ last = NoCall
    /\ proc = <<>>
    /\ probe \in { [n |-> n, raw |-> raw, done |-> FALSE, out |-> NoIndex]
                   : n \in 0..MaxTasks, raw \in SeqsUpTo(RawChars, MaxRawLen) }

NextResolve == ResolveIndex

SpecResolve == InitResolve /\ [][NextResolve]_vars

---------------------------------------------------------------------------
(* load_todos on its own: every file another program may have left           *)

SomeTodo == create_todo(<<"a">>, "2024-01-01 12:00")
NotATodo == [name |-> <<"a">>]

DocTokens ==
    { OpenTok, CloseTok, Obj(SomeTodo), Obj(NotATodo), JunkTok, BadUtf8Tok }

ForeignFiles ==
    { NoFile }
    \cup { [exists |-> TRUE, readable |-> r, data |-> d]
           : r \in BOOLEAN, d \in SeqsUpTo(DocTokens, MaxDocLen) }

LoadTodos ==
    /\ ~probe.done
    /\ probe' = [done |-> TRUE, out |-> load_todos(file)]
    /\ UNCHANGED <<file, ioFaults, last, proc>>

InitLoad ==
    /\ file \in ForeignFiles
    /\ ioFaults = FALSE
    /\ last = NoCall
    /\ proc = <<>>
    /\ probe = [done |-> FALSE, out |-> Returned(<<>>, TRUE)]

NextLoad == LoadTodos

SpecLoad == InitLoad /\ [][NextLoad]_vars

---------------------------------------------------------------------------
(* Two processes, one command each, against the same file.  A process loads, *)
(* plans, opens the file for writing (which cuts it), and writes its         *)
(* document from offset 0 through its own descriptor.                        *)

Procs == {1, 2}

ConcCommands ==
    { [op |-> "add", arg |-> x, t |-> t]
      : x \in { <<"a">>, <<" ", "b">> }, t \in Timestamps }
    \cup { [op |-> o, arg |-> i, t |-> "2024-01-01 12:00"]
           : o \in {"complete", "remove"}, i \in { <<"1">>, <<"2">> } }
    \cup { [op |-> "clear", arg |-> <<>>, t |-> "2024-01-01 12:00"] }

ConcTodos ==
    { [task |-> x, completed |-> c, created |-> "2024-01-01 12:00"]
      : x \in { <<"a">>, <<"b">> }, c \in BOOLEAN }

PlanOf(c, todos) ==
    CASE c.op = "add" -> add_task(todos, c.arg, c.t)
      [] c.op = "complete" -> complete_task(todos, c.arg)
      [] c.op = "remove" -> remove_task(todos, c.arg)
      [] c.op = "clear" -> clear_completed(todos)

Stamps == { proc[q].stamp : q \in Procs }
MaxStamp == CHOOSE m \in Stamps : \A x \in Stamps : x <= m

\* todos = self.storage.load_todos() and the method's work up to the save
PLoad(p) ==
    /\ proc[p].pc = "load"
    /\ LET plan == PlanOf(proc[p].cmd, load_todos(file).val)
       IN  proc' = [proc EXCEPT
                      ![p].pc = IF plan.save THEN "open" ELSE "done",
                      ![p].todos = plan.todos,
                      ![p].ret = IF plan.save THEN "pending" ELSE plan.ret,
                      ![p].planned = plan.ret]
    /\ UNCHANGED <<file, ioFaults, last, probe>>

\* with open(self.filename, 'w', ...) as file:
POpen(p) ==
    /\ proc[p].pc = "open"
    /\ file' = Truncate(file)
    /\ proc' = [proc EXCEPT ![p].pc = "write"]
    /\ UNCHANGED <<ioFaults, last, probe>>

\* json.dump into the buffer, flushed by the close; the method then returns
PWrite(p) ==
    /\ proc[p].pc = "write"
    /\ file' = WriteAt(file, Serialize(proc[p].todos))
    /\ proc' = [proc EXCEPT
                  ![p].pc = "done",
                  ![p].ret = proc[p].planned,
                  ![p].stamp = MaxStamp + 1]
    /\ UNCHANGED <<ioFaults, last, probe>>

InitConc ==
    /\ file \in { FileOf(Serialize(l)) : l \in SeqsUpTo(ConcTodos, MaxInitLen) }
    /\ ioFaults = FALSE
    /\ last = NoCall
    /\ probe = <<>>
    /\ proc \in [Procs -> { [pc |-> "load", cmd |-> c, todos |-> <<>>,
                             ret |-> "pending", planned |-> "pending",
                             stamp |-> 0]
                            : c \in ConcCommands }]

NextConc ==
    \E p \in Procs :
        \/ PLoad(p)
        \/ POpen(p)
        \/ PWrite(p)

SpecConc == InitConc /\ [][NextConc]_vars

---------------------------------------------------------------------------
(* What the claims speak of, stated without the program's own operators     *)

\* a manager call ran in this step
CallStep == <<file, last>>' # <<file, last>>

HasText(s) == \E i \in 1..Len(s) : s[i] \notin Whitespace

\* t is s without its leading and trailing whitespace
IsTrimOf(t, s) ==
    \E i, j \in 1..Len(s) :
        /\ i <= j
        /\ s[i] \notin Whitespace
        /\ s[j] \notin Whitespace
        /\ \A k \in 1..Len(s) : (k < i \/ k > j) => s[k] \in Whitespace
        /\ t = SubSeq(s, i, j)

\* the decimal digits of k >= 0
DigitChar(d) ==
    CASE d = 0 -> "0" [] d = 1 -> "1" [] d = 2 -> "2" [] d = 3 -> "3"
      [] d = 4 -> "4" [] d = 5 -> "5" [] d = 6 -> "6" [] d = 7 -> "7"
      [] d = 8 -> "8" [] d = 9 -> "9"

RECURSIVE Str(_)
Str(k) ==
    IF k < 10 THEN <<DigitChar(k)>>
    ELSE Append(Str(k \div 10), DigitChar(k % 10))

\* raw is whitespace, an optional sign, zeros, the digits of |k|, whitespace
Denotes(raw, k) ==
    LET mag == IF k < 0 THEN 0 - k ELSE k
        ds == Str(mag)
    IN  \E i, j \in 1..Len(raw) :
            /\ i <= j
            /\ \A p \in 1..Len(raw) : (p < i \/ p > j) => raw[p] \in Whitespace
            /\ \E z \in i..j :      \* the digits of |k| are raw[z..j]
                /\ SubSeq(raw, z, j) = ds
                /\ \/ \A p \in i..(z - 1) : raw[p] = "0"
                   \/ /\ i < z
                      /\ raw[i] = IF k < 0 THEN "-" ELSE "+"
                      /\ \A p \in (i + 1)..(z - 1) : raw[p] = "0"
                   \/ k = 0 /\ i < z /\ raw[i] = "-"
                      /\ \A p \in (i + 1)..(z - 1) : raw[p] = "0"
            /\ k < 0 => raw[i] = "-"

\* raw is a base-10 integer literal
IsIntLiteral(raw) ==
    \E i, j \in 1..Len(raw) :
        /\ i <= j
        /\ \A p \in 1..Len(raw) : (p < i \/ p > j) => raw[p] \in Whitespace
        /\ \/ \A p \in i..j : raw[p] \in Digits
           \/ /\ i < j
              /\ raw[i] \in {"-", "+"}
              /\ \A p \in (i + 1)..j : raw[p] \in Digits

\* raw resolves to position k of a list of n todos
ResolvesTo(raw, n, k) == k \in 1..n /\ Denotes(raw, k)
Resolves(raw, n) == \E k \in 1..n : Denotes(raw, k)
Resolved(raw, n) == CHOOSE k \in 1..n : Denotes(raw, k)

---------------------------------------------------------------------------
(* The claims about sequential use, under Spec *)

\* C1: completeTask(i) on an index that resolves to a todo not yet completed
\* returns true and leaves the todo completed; the same call made again next
\* returns false, does not save, leaves the file as it is, and the todo is
\* still completed.
C1_CompleteTwice ==
    [][ (last'.op = "complete" /\ CallStep) =>
          LET raw == last'.arg
              n == Len(Stored)
          IN  /\ (Resolves(raw, n) /\ ~Stored[Resolved(raw, n)].completed) =>
                    /\ last'.ret = "true"
                    /\ Stored'[Resolved(raw, n)].completed
              /\ last'.prevRet = "true" =>
                    /\ Resolves(raw, n)
                    /\ last'.ret = "false"
                    /\ ~last'.saved
                    /\ file' = file
                    /\ Stored'[Resolved(raw, n)].completed
      ]_vars

C1_Witness ==
    /\ last.op = "complete"
    /\ last.prevRet = "true"
    /\ last.ret = "false"
    /\ last.arg = <<"2">>
    /\ Len(Stored) = 3
    /\ Stored[2].completed

\* C2: addTask(text) with a text holding a non-whitespace character returns
\* true, and the stored list afterwards is the list before followed by one new
\* todo, not completed, whose text is the input without its leading and
\* trailing whitespace.
C2_AddAppends ==
    [][ (last'.op = "add" /\ CallStep /\ HasText(last'.arg)) =>
          LET n == Len(Stored)
          IN  /\ last'.ret = "true"
              /\ Len(Stored') = n + 1
              /\ SubSeq(Stored', 1, n) = Stored
              /\ IsTrimOf(Stored'[n + 1].task, last'.arg)
              /\ Stored'[n + 1].completed = FALSE
      ]_vars

C2_Witness ==
    /\ last.op = "add"
    /\ last.ret = "true"
    /\ last.arg = <<" ", "a", " ">>
    /\ Len(Stored) = 3
    /\ Stored[3].task = <<"a">>

\* the soft failures: no text to add, nothing stored, an index that does not
\* resolve, a todo completed already, nothing to clear
SoftFailure(op, arg, todos) ==
    \/ op = "add" /\ ~HasText(arg)
    \/ op \in {"complete", "remove"} /\ todos = <<>>
    \/ op \in {"complete", "remove"} /\ ~Resolves(arg, Len(todos))
    \/ op = "complete" /\ Resolves(arg, Len(todos))
         /\ todos[Resolved(arg, Len(todos))].completed
    \/ op = "clear" /\ \A i \in 1..Len(todos) : ~todos[i].completed

\* C3: every soft failure returns false, does not call save, and leaves the
\* file as it was.
C3_SoftFailureKeepsFile ==
    [][ (CallStep /\ SoftFailure(last'.op, last'.arg, Stored)) =>
          /\ last'.ret = "false"
          /\ ~last'.saved
          /\ file' = file
      ]_vars

C3_Witness ==
    /\ last.op = "remove"
    /\ last.arg = <<"4">>
    /\ last.ret = "false"
    /\ ~last.saved
    /\ Len(Stored) = 2

\* C4: removeTask(i) with 1 <= i <= n returns true and leaves n - 1 todos:
\* those before position i where they were, those after it one position down.
C4_RemoveShifts ==
    [][ (last'.op = "remove" /\ CallStep /\ Resolves(last'.arg, Len(Stored))) =>
          LET n == Len(Stored)
              i == Resolved(last'.arg, n)
          IN  /\ last'.ret = "true"
              /\ Len(Stored') = n - 1
              /\ \A j \in 1..(i - 1) : Stored'[j] = Stored[j]
              /\ \A j \in (i + 1)..n : Stored'[j - 1] = Stored[j]
      ]_vars

C4_Witness ==
    /\ last.op = "remove"
    /\ last.arg = <<" ", "2">>
    /\ last.ret = "true"
    /\ Len(Stored) = 2
    /\ Stored[1] # Stored[2]

\* C5: clearCompleted returns false and leaves the file as it was when no todo
\* is completed; otherwise it returns true and the stored list is the todos
\* that were not completed, each at the rank it had among them.
C5_ClearKeepsPending ==
    [][ (last'.op = "clear" /\ CallStep) =>
          LET pend == { i \in 1..Len(Stored) : ~Stored[i].completed }
          IN  IF Cardinality(pend) = Len(Stored)
              THEN last'.ret = "false" /\ file' = file
              ELSE /\ last'.ret = "true"
                   /\ Len(Stored') = Cardinality(pend)
                   /\ \A i \in pend :
                        Stored'[Cardinality({ q \in pend : q <= i })] = Stored[i]
      ]_vars

C5_Witness ==
    /\ last.op = "clear"
    /\ last.ret = "true"
    /\ Len(Stored) = 2
    /\ Stored[1] # Stored[2]

\* the same todo, completed or not
SameTodo(x, y) == x.task = y.task /\ x.created = y.created

\* a is b with some elements left out (the first match is as good as any)
RECURSIVE IsSubseq(_, _)
IsSubseq(a, b) ==
    \/ a = <<>>
    \/ /\ b # <<>>
       /\ IF SameTodo(Head(a), Head(b))
          THEN IsSubseq(Tail(a), Tail(b))
          ELSE IsSubseq(a, Tail(b))

\* C10: no step reorders the stored list: the todos after a step are those
\* before it in the same order with some removed, or those before it with one
\* new todo at the end; and listTasks leaves the file as it was.
C10_NeverReordered ==
    [][ /\ \/ file' = file
           \/ IsSubseq(Stored', Stored)
           \/ /\ Len(Stored') = Len(Stored) + 1
              /\ \A i \in 1..Len(Stored) : SameTodo(Stored'[i], Stored[i])
        /\ last'.op = "list" => file' = file
      ]_vars

C10_Witness ==
    /\ last.op = "list"
    /\ Len(Stored) = 3
    /\ Shown(Stored) # Stored
    /\ Stored[1].completed
    /\ ~Stored[2].completed

---------------------------------------------------------------------------
(* The claims about the validator and the storage *)

\* C6: get_valid_task_index gives none for every raw string that is no
\* base-10 integer literal and for every integer outside 1..len, and gives the
\* integer the string denotes, as it is, when that lies in 1..len.
C6_ResolveIndex ==
    probe.done =>
        LET raw == probe.raw
            n == probe.n
            out == probe.out
        IN  /\ ~IsIntLiteral(raw) => out.none
            /\ (IsIntLiteral(raw) /\ ~Resolves(raw, n)) => out.none
            /\ \A k \in 1..n : Denotes(raw, k) => out = [none |-> FALSE, val |-> k]
            /\ ~out.none => ResolvesTo(raw, n, out.val)

C6_Witness ==
    /\ probe.done
    /\ probe.raw = <<" ", "2">>
    /\ probe.n = 3
    /\ probe.out = [none |-> FALSE, val |-> 2]

\* the document of a list of todos
IsTodoListDoc(d) ==
    IsListDoc(d) /\ \A i \in 2..(Len(d) - 1) : IsTask(d[i].val)

\* C7: load never fails with an error, what it returns is always a sequence
\* of todos, and it is the empty sequence whenever the file is absent,
\* unreadable, or holds anything but the document of a list of todos.
C7_LoadNeverFails ==
    probe.done =>
        LET out == probe.out
        IN  /\ out.raises = "none"
            /\ out.isList
            /\ \A i \in 1..Len(out.val) : IsTask(out.val[i])
            /\ (~file.exists \/ ~file.readable \/ ~IsTodoListDoc(file.data))
                  => out.val = <<>>

\* C8: a call that ends in a failed save ends the process with a non-zero
\* status and leaves a whole document (or no file), never an empty or a
\* partly written one.
C8_SaveAllOrNothing ==
    last.exit = 1 =>
        /\ last.ret = "exit"
        /\ ~file.exists \/ IsTodoListDoc(file.data)

\* C9: once two concurrent processes are done, the file holds exactly the
\* document of the process whose save wrote last.
C9_LastWriterWins ==
    (/\ \A p \in Procs : proc[p].pc = "done"
     /\ \E p \in Procs : proc[p].stamp > 0)
        => \E w \in Procs :
              /\ proc[w].stamp = MaxStamp
              /\ file.data = Serialize(proc[w].todos)

====
